---- MODULE Spec2Model ----
(***************************************************************************)
(* Presence tracking and notification engine of src/main.py.               *)
(*                                                                         *)
(* The polling task update_status_message, the allow-list commands, the    *)
(* publisher of the single status message and the process start code are   *)
(* modelled from the source.  Reading notes that decide the behaviour:     *)
(*                                                                         *)
(*  - main.py is stored with escaped quotes and newlines (\"\"\", \\n); it   *)
(*    is read with these escapes undone, as the Python program it holds.   *)
(*  - chunked (main.py:107-109) is an async generator function.            *)
(*    get_presences and get_usernames iterate `await chunked(...)`         *)
(*    (main.py:142, 157).  An async generator object is not awaitable, so  *)
(*    the await raises TypeError before the first request is sent.         *)
(*    get_presences returns normally only through its empty-input guard    *)
(*    (main.py:137-138).                                                   *)
(*  - every exception inside the tick is caught at main.py:305-306; the    *)
(*    tick is abandoned and nothing after the raising statement runs.      *)
(*  - the publish step is split at its awaits (fetch_message at 281, edit   *)
(*    at 282, send at 284/291): commands, message deletion and the clock   *)
(*    run while the tick waits there.  The create call has two steps       *)
(*    (request accepted by the messaging service, response received).      *)
(*  - writes of state.json (main.py:295-297) are synchronous and assumed   *)
(*    to succeed; the content of the status message is not modelled.       *)
(***************************************************************************)
EXTENDS Integers, Sequences, FiniteSets, TLC

\* ------------------------------------------------------------------ bounds
NumIds == 2         \* identities 1..NumIds
MaxNow == 1         \* the clock runs over 0..MaxNow
MaxMsgs == 2        \* message ids handed out by the messaging service
MaxOver == 2        \* seconds stepped after elapsed reaches RESTART_INTERVAL
MaxManual == 1      \* manual restart commands in a process lifetime
MaxLate == 1        \* seconds a sleep may end after its wake second

\* --------------------------------------------------------------- constants
BATCH == 100        \* chunk size passed to chunked (main.py:142, 157)
ROBLOX_USER_ID == 1 \* the operator's own identity (main.py:20)
RESTART_INTERVAL == 43200  \* seconds (main.py:79)
WARN_FROM == 300    \* the warning is sent while remaining <= 300 (main.py:316)
WARN_UNTIL == 295   \* ... and remaining > 295 (main.py:316)
MANUAL_DELAY == 5   \* cmd_resetbot sleeps 5 s before its notice (main.py:357)
GRACE == 1          \* sleep before os.execv (main.py:324, 361)

IDs == 1..NumIds
Others == IDs \ {ROBLOX_USER_ID}  \* identities that can be monitored
Kinds == {0, 1, 2}  \* userPresenceType: 0 Offline, 1 OnlineIdle, 2 OnlineActive
None == 0           \* status_message_id: None (falsy at main.py:279)
NoTime == -1        \* a key absent from online_since / game_since

VARIABLES
    now,                \* wall clock read by now_wib()
    live,               \* messaging service: status messages that exist
    next_id,            \* messaging service: id of the next created message
    manual_tracked,     \* players.json / manual_tracked
    state_file,         \* state.json: persisted status_message_id
    status_message_id,  \* in-memory display handle
    online_since,       \* online_since: id -> timestamp or NoTime
    game_since,         \* game_since: id -> timestamp or NoTime
    last_online_set,    \* last_online_set
    START_TIME,         \* START_TIME of the running process
    pc,                 \* where the polling task waits: "idle" (for its next
                        \* period) | "fetching" (281) | "editing" (282) |
                        \* "sending" | "creating" (284/291)
    pending,            \* id of the message whose create call is in flight
    obs,                \* what the most recent tick did
    rst                 \* what the restart coordinator of this process did

vars == <<now, live, next_id, manual_tracked, state_file,
          status_message_id, online_since, game_since, last_online_set,
          START_TIME, pc, pending, obs, rst>>

\* ------------------------------------------------------- helper functions
Min(a, b) == IF a < b THEN a ELSE b

Max(a, b) == IF a > b THEN a ELSE b

\* list(monitored), list(presence_map.keys()): the elements of the set, each
\* once, in the iteration order of the set.  That order depends on the
\* hash table and not on the values, so every enumeration is possible.
Lists(S) ==
    {l \in [1..Cardinality(S) -> S] :
        \A i, j \in 1..Cardinality(S) : i # j => l[i] # l[j]}

RECURSIVE chunked(_, _)
\* main.py:107-109: the slices iterable[i:i+n] for i = 0, n, 2n, ...
chunked(iterable, n) ==
    IF Len(iterable) = 0 THEN <<>>
    ELSE <<SubSeq(iterable, 1, Min(n, Len(iterable)))>>
         \o chunked(SubSeq(iterable, Min(n, Len(iterable)) + 1, Len(iterable)), n)

\* main.py:112-133: "ok" gives the relation list, a non-200 page gives []
get_friends_list(fr, outcome) == IF outcome = "ok" THEN fr ELSE {}

\* main.py:181-185: friends + manual tracked, minus the operator
monitored(friends, mt) == (friends \cup mt) \ {ROBLOX_USER_ID}

\* main.py:135-150.  Empty input returns [] (137-138); otherwise line 142
\* awaits the async generator returned by chunked and raises TypeError
\* before any request is posted.
get_presences(user_ids) ==
    IF Len(user_ids) = 0
    THEN [raised |-> FALSE, results |-> <<>>, calls |-> 0]
    ELSE [raised |-> TRUE,  results |-> <<>>, calls |-> 0]

\* main.py:152-164: line 157 raises the same TypeError for every input
get_usernames(user_ids) == [raised |-> TRUE, calls |-> 0]

\* main.py:188: presence_map = {userId: record}; a record is [userId, type]
\* a later record of the same userId replaces the earlier one
presence_map(results) ==
    [u \in {results[i].userId : i \in 1..Len(results)} |->
        LET last == CHOOSE i \in 1..Len(results) :
                        /\ results[i].userId = u
                        /\ \A j \in 1..Len(results) :
                              results[j].userId = u => j <= i
        IN  results[last].type]

RECURSIVE presence_keys(_)
\* main.py:196: presence_map.items() iterates the keys in insertion order,
\* a key keeping the place of its first record
presence_keys(results) ==
    IF Len(results) = 0 THEN <<>>
    ELSE LET u == results[1].userId
             rest == SelectSeq(Tail(results), LAMBDA r : r.userId # u)
         IN  <<u>> \o presence_keys(rest)


\* ------------------------------------------- session tracker (main.py:196-244)
is_online(t) == t # 0                       \* main.py:199

\* main.py:205: ids added to current_online_set
current_online_set(pm) == {u \in DOMAIN pm : is_online(pm[u])}

\* ids taking the offline branch with the last_online_set guard (218-219)
went_offline(pm, los) == {u \in DOMAIN pm : ~is_online(pm[u]) /\ u \in los}

RECURSIVE StampSeqs(_, _, _, _, _)
\* main.py:203: the loop reads the wall clock once per record, and the
\* wall clock can have moved between any two readings, whether or not the
\* loop was suspended in between (main.py:228); t is the reading at the
\* record of Head(keys), tmax the last clock value explored.
StampSeqs(keys, pm, los, t, tmax) ==
    IF Len(keys) = 0 THEN {<<>>}
    ELSE LET later == t..Max(t, tmax)
         IN  {<<t>> \o s :
                s \in UNION {StampSeqs(Tail(keys), pm, los, t2, tmax) :
                                t2 \in later}}

\* the clock values of the records of a tick, by id
StampMaps(keys, pm, los, t, tmax) ==
    {[u \in DOMAIN pm |-> s[CHOOSE i \in 1..Len(keys) : keys[i] = u]] :
        s \in StampSeqs(keys, pm, los, t, tmax)}

\* the clock when the loop over the records is left
clock_after(at, t) ==
    IF DOMAIN at = {} THEN t
    ELSE CHOOSE m \in {at[u] : u \in DOMAIN at} :
            \A u \in DOMAIN at : at[u] <= m

\* main.py:206-207 (set when absent) and 220 (pop in the offline branch);
\* at[u] is the clock read at the record of u (main.py:203)
online_since_after(pm, os, los, at) ==
    [u \in IDs |->
        IF u \in current_online_set(pm)
        THEN (IF os[u] = NoTime THEN at[u] ELSE os[u])
        ELSE IF u \in went_offline(pm, los) THEN NoTime ELSE os[u]]

\* main.py:208-212 (set when type 2 and absent, else pop) and 221
game_since_after(pm, gs, los, at) ==
    [u \in IDs |->
        IF u \in current_online_set(pm)
        THEN (IF pm[u] = 2 THEN (IF gs[u] = NoTime THEN at[u] ELSE gs[u])
              ELSE NoTime)
        ELSE IF u \in went_offline(pm, los) THEN NoTime ELSE gs[u]]

\* main.py:219-232: one offline notification per id of the offline branch
offline_events(pm, os, gs, los, at) ==
    {[uid |-> u,
      total_online |-> IF os[u] # NoTime THEN at[u] - os[u] ELSE 0,
      total_game   |-> IF gs[u] # NoTime THEN at[u] - gs[u] ELSE 0]
        : u \in went_offline(pm, los)}

\* main.py:237
new_online(cur, los) == cur \ los

\* ------------------------------------------------------------ observation
NoObs == [outcome |-> "none", fetched |-> FALSE, queried |-> {}, calls |-> 0,
          up_online |-> {}, up_active |-> {}, up_offline |-> {},
          last_before |-> {}, cur |-> {},
          online_ev |-> {}, offline_ev |-> {},
          start_handle |-> None, edit |-> "none", created |-> 0,
          new_id |-> None, logs |-> 0, first |-> TRUE]

\* the restart coordinator of a fresh process has sent nothing yet
NoRst == [warned |-> 0, noticed |-> 0, cmds |-> 0, manual |-> 0, execv |-> 0,
          relaunched |-> FALSE, checked |-> FALSE, logs |-> 0,
          \* auto_restart_check: "idle" | "warning" | "notice" | "grace"
          auto |-> "idle", auto_wake |-> 0,
          \* cmd_resetbot: "none" | "reply" | "delay" | "notice" | "grace"
          cmd |-> "none", cmd_wake |-> 0]

\* no tick of the running process has reached the publish step yet
Pristine(o) == o.outcome \notin {"creating", "done"} /\ o.first

\* ---------------------------------------------------------------- startup
\* main.py:62-70, 83-88: module level code run at every process start
Init ==
    /\ now = 0
    /\ live = {}
    /\ next_id = 1
    /\ manual_tracked = {}
    /\ state_file = None
    /\ status_message_id = None
    /\ online_since = [u \in IDs |-> NoTime]
    /\ game_since = [u \in IDs |-> NoTime]
    /\ last_online_set = {}
    /\ START_TIME = 0
    /\ pc = "idle"
    /\ pending = None
    /\ obs = NoObs
    /\ rst = NoRst

\* the handle a starting process reads from state.json (main.py:83)
LoadHandle(file) == file

\* A process start (main.py:62-88) after the previous process was ended from
\* outside while it was waiting: between two ticks or at the await of the
\* create call.  The program never ends its own process, since os.execv at
\* main.py:326/363 is not reached (see execv).
Relaunch ==
    /\ status_message_id' = LoadHandle(state_file)
    /\ online_since' = [u \in IDs |-> NoTime]
    /\ game_since' = [u \in IDs |-> NoTime]
    /\ last_online_set' = {}
    /\ START_TIME' = now
    /\ pc' = "idle"
    /\ pending' = None
    /\ obs' = NoObs
    /\ rst' = NoRst
    /\ UNCHANGED <<now, live, next_id, manual_tracked, state_file>>

\* ------------------------------------------------------------ environment
Advance ==
    /\ now < MaxNow
    /\ now' = now + 1
    /\ UNCHANGED <<rst, live, next_id, manual_tracked, state_file,
                   status_message_id, online_since, game_since,
                   last_online_set, START_TIME, pc, pending, obs>>

\* somebody deletes a status message on the messaging service
DeleteMessage ==
    \E m \in live :
        /\ live' = live \ {m}
        /\ UNCHANGED <<rst, now, next_id, manual_tracked, state_file,
                       status_message_id, online_since, game_since,
                       last_online_set, START_TIME, pc, pending, obs>>

\* --------------------------------------------------------------- commands
\* main.py:331-339 (an id that is already in the list changes nothing)
cmd_add ==
    \E user_id \in IDs :
        /\ user_id \notin manual_tracked
        /\ manual_tracked' = manual_tracked \cup {user_id}
        /\ UNCHANGED <<rst, now, live, next_id, state_file,
                       status_message_id, online_since, game_since,
                       last_online_set, START_TIME, pc, pending, obs>>

\* main.py:341-350 (an id that is not in the list changes nothing)
cmd_hapus ==
    \E user_id \in IDs :
        /\ user_id \in manual_tracked
        /\ manual_tracked' = manual_tracked \ {user_id}
        /\ UNCHANGED <<rst, now, live, next_id, state_file,
                       status_message_id, online_since, game_since,
                       last_online_set, START_TIME, pc, pending, obs>>


\* -------------------------------------------- polling tick (main.py:167-306)
\* main.py:180-194: relation list, monitored set, presences, names
\* user_ids is list(monitored) (main.py:187)
TickFront(fr, fo, user_ids) ==
    LET friends == get_friends_list(fr, fo)
        mon     == monitored(friends, manual_tracked)
        p       == get_presences(user_ids)
        pm      == presence_map(p.results)
        keys    == presence_keys(p.results)
        names   == IF Len(keys) # 0
                   THEN get_usernames(keys)
                   ELSE [raised |-> FALSE, calls |-> 0]
    IN  [mon    |-> mon,
         raised |-> p.raised \/ names.raised,
         calls  |-> p.calls,
         pm     |-> pm,
         keys   |-> keys,
         flog   |-> IF fo = "ok" THEN 0 ELSE 1]

FriendLists == SUBSET Others
FriendOutcomes == {"ok", "status"}

\* what the presence service would answer for every other identity
Upstream == [Others -> Kinds]

\* what the tick saw upstream and did up to the publish step
BaseObs(f, nf, at) ==
    LET cur == current_online_set(f.pm)
    IN  [NoObs EXCEPT
            !.fetched = TRUE,
            !.queried = f.mon,
            !.calls = f.calls,
            !.last_before = last_online_set,
            !.cur = cur,
            !.online_ev = new_online(cur, last_online_set),
            !.offline_ev = offline_events(f.pm, online_since, game_since,
                                          last_online_set, at),
            !.start_handle = status_message_id,
            !.first = Pristine(obs),
            !.logs = f.flog + Cardinality(nf)]

\* main.py:196-244: the loop over presence_map and the online notifications
Track(f, at) ==
    /\ online_since' = online_since_after(f.pm, online_since, last_online_set, at)
    /\ game_since' = game_since_after(f.pm, game_since, last_online_set, at)
    /\ now' = clock_after(at, now)

\* the clock readings a tick can make at its records
Stamps(f) == StampMaps(f.keys, f.pm, last_online_set, now, MaxNow)

\* ids whose notification is sent in this tick (main.py:228, 242)
Notified(f) == went_offline(f.pm, last_online_set)
                 \cup new_online(current_online_set(f.pm), last_online_set)

\* a tick boundary that lets the exception end the polling task
after_exception_uncaught == "stopped"

\* main.py:305-306: the exception is caught and logged inside the tick, so
\* the tasks.loop is not stopped and waits for its next period
after_exception == "idle"

\* an exception exit that forgets the display handle
handle_after_abandon_reset(h) == None

\* main.py:305-306: the except clause assigns nothing; the only assignments
\* to status_message_id are at 285 and 292, after the fetches
handle_after_abandon(h) == h

\* main.py:170-171
TickClosed ==
    /\ pc = "idle"
    /\ obs' = [NoObs EXCEPT !.outcome = "closed", !.first = Pristine(obs)]
    /\ UNCHANGED <<rst, now, live, next_id, manual_tracked, state_file,
                   status_message_id, online_since, game_since,
                   last_online_set, START_TIME, pc, pending>>

\* main.py:173-177
TickNoChannel ==
    /\ pc = "idle"
    /\ obs' = [NoObs EXCEPT !.outcome = "nochannel", !.logs = 1,
                         !.first = Pristine(obs)]
    /\ UNCHANGED <<rst, now, live, next_id, manual_tracked, state_file,
                   status_message_id, online_since, game_since,
                   last_online_set, START_TIME, pc, pending>>

\* main.py:180 raising (transport error of the relation list), caught at 305
TickFriendsError ==
    /\ pc = "idle"
    /\ obs' = [NoObs EXCEPT !.outcome = "abandoned", !.logs = 1,
                         !.first = Pristine(obs)]
    /\ pc' = after_exception
    /\ status_message_id' = handle_after_abandon(status_message_id)
    /\ UNCHANGED <<rst, now, live, next_id, manual_tracked, state_file,
                   online_since, game_since,
                   last_online_set, START_TIME, pending>>

\* the fronts a tick can compute: one per relation list and outcome
Fronts ==
    UNION {{TickFront(fr, fo, l) :
                l \in Lists(monitored(get_friends_list(fr, fo), manual_tracked))} :
           fr \in FriendLists, fo \in FriendOutcomes}

\* observation of a tick abandoned at the presence or display-name query
AbandonedObs(f, up) ==
    [BaseObs(f, {}, <<>>) EXCEPT
        !.outcome = "abandoned",
        !.up_online = {u \in f.mon : is_online(up[u])},
        !.up_active = {u \in f.mon : up[u] = 2},
        !.up_offline = {u \in f.mon : up[u] = 0},
        !.cur = {}, !.online_ev = {}, !.offline_ev = {},
        !.logs = f.flog + 1]

\* main.py:187/194 raising, caught at 305: the tick is abandoned
TickFetchError ==
    /\ pc = "idle"
    /\ obs' \in {AbandonedObs(f, up) : f \in {g \in Fronts : g.raised},
                                      up \in Upstream}
    /\ pc' = after_exception
    /\ status_message_id' = handle_after_abandon(status_message_id)
    /\ UNCHANGED <<rst, now, live, next_id, manual_tracked, state_file,
                   online_since, game_since,
                   last_online_set, START_TIME, pending>>

\* results of status_channel.fetch_message for handle h (main.py:281)
FetchResults(h) ==
    (IF h \in live THEN {"found"} ELSE {"notfound"}) \cup {"forbidden", "error"}

\* results of msg.edit for handle h (main.py:282); "none" when there is no
\* handle and nothing is edited
EditResults(h) ==
    IF h = None THEN {"none"}
    ELSE (IF h \in live THEN {"ok"} ELSE {"notfound"}) \cup {"forbidden", "error"}

\* a publisher that also creates a message when the edit fails otherwise
creates_any(h, res) == h = None \/ res # "ok"

\* main.py:279-292: the branches that call status_channel.send
creates(h, res) == h = None \/ res = "notfound"

\* a publisher that writes no handle to state.json
Persist_none(h) == None

\* main.py:295-297: the handle written to state.json
Persist(h) == h

\* main.py:180-279: a tick whose fetches do not raise runs the tracker, the
\* notifications and the rendering, and reaches the publish step; there it
\* waits at fetch_message (281) or, without a handle, at send (291)
TickPublish ==
    /\ pc = "idle"
    /\ \E f \in Fronts :
        \E nf \in SUBSET Notified(f), at \in Stamps(f) :
            /\ ~f.raised
            /\ Track(f, at)
            /\ obs' = [BaseObs(f, nf, at) EXCEPT !.outcome = "publishing"]
    /\ pc' = IF creates(status_message_id, "none") THEN "sending" ELSE "fetching"
    /\ UNCHANGED <<rst, live, next_id, manual_tracked, state_file,
                   status_message_id, last_online_set, START_TIME, pending>>

\* main.py:283-303: what the tick does with the result res of fetch_message
\* or edit.  NotFound goes on to send (284); every other result ends the
\* publish: a failure is logged (286-289), the handle is written to
\* state.json (295-297) and last_online_set is replaced (302-303).
AfterEdit(res) ==
    IF creates(status_message_id, res)
    THEN /\ pc' = "sending"
         /\ obs' = [obs EXCEPT !.edit = res]
         /\ UNCHANGED <<state_file, last_online_set>>
    ELSE /\ pc' = "idle"
         /\ obs' = [obs EXCEPT !.outcome = "done", !.edit = res,
                               !.logs = @ + (IF res = "ok" THEN 0 ELSE 1)]
         /\ state_file' = Persist(status_message_id)
         /\ last_online_set' = obs.cur

\* main.py:281: fetch_message returns the message or raises
TickFetchMessage ==
    /\ pc = "fetching"
    /\ \E res \in FetchResults(status_message_id) :
        IF res = "found"
        THEN /\ pc' = "editing"
             /\ UNCHANGED <<obs, state_file, last_online_set>>
        ELSE AfterEdit(res)
    /\ UNCHANGED <<rst, now, live, next_id, manual_tracked, status_message_id,
                   online_since, game_since, START_TIME, pending>>

\* main.py:282: msg.edit returns or raises
TickEdit ==
    /\ pc = "editing"
    /\ \E res \in EditResults(status_message_id) : AfterEdit(res)
    /\ UNCHANGED <<rst, now, live, next_id, manual_tracked, status_message_id,
                   online_since, game_since, START_TIME, pending>>

\* main.py:284/291: the create call is accepted by the messaging service
TickCreateIssue ==
    /\ pc = "sending"
    /\ next_id <= MaxMsgs
    /\ obs' = [obs EXCEPT !.outcome = "creating", !.created = 1,
                          !.new_id = next_id]
    /\ live' = live \cup {next_id}
    /\ next_id' = next_id + 1
    /\ pending' = next_id
    /\ pc' = "creating"
    /\ UNCHANGED <<rst, now, manual_tracked, state_file, status_message_id,
                   online_since, game_since, last_online_set, START_TIME>>

\* main.py:285/292, 295-297, 302-303: the create call returns
TickCreateReturn ==
    /\ pc = "creating"
    /\ status_message_id' = pending
    /\ state_file' = Persist(pending)
    /\ last_online_set' = obs.cur
    /\ pc' = "idle"
    /\ pending' = None
    /\ obs' = [obs EXCEPT !.outcome = "done"]
    /\ UNCHANGED <<rst, now, live, next_id, manual_tracked,
                   online_since, game_since, START_TIME>>

\* main.py:284/291 raising, caught at 298; then 302-303
TickCreateFail ==
    /\ pc = "sending"
    /\ obs' = [obs EXCEPT !.outcome = "done", !.logs = @ + 1]
    /\ last_online_set' = obs.cur
    /\ pc' = "idle"
    /\ UNCHANGED <<rst, now, live, next_id, manual_tracked, state_file,
                   status_message_id, online_since, game_since, START_TIME,
                   pending>>

update_status_message ==
    \/ TickClosed
    \/ TickNoChannel
    \/ TickFriendsError
    \/ TickFetchError
    \/ TickPublish
    \/ TickFetchMessage
    \/ TickEdit
    \/ TickCreateIssue
    \/ TickCreateReturn
    \/ TickCreateFail

Next ==
    \/ update_status_message
    \/ cmd_add
    \/ cmd_hapus
    \/ Relaunch
    \/ Advance
    \/ DeleteMessage

Spec == Init /\ [][Next]_vars


\* ------------------------------------- restart coordinator (main.py:308-363)
\* The coordinator shares no state with the polling task; it is explored in
\* its own specification, one process lifetime long, with the clock in
\* seconds from the start of the process.
PollVars == <<live, next_id, manual_tracked, state_file, status_message_id,
              online_since, game_since, last_online_set, START_TIME, pc,
              pending, obs>>

elapsed == now - START_TIME                     \* main.py:312-314

\* main.py:316
in_warning_window(e) ==
    RESTART_INTERVAL - e <= WARN_FROM /\ RESTART_INTERVAL - e > WARN_UNTIL

\* main.py:320
restart_due(e) == e >= RESTART_INTERVAL

\* main.py:326, 363: os.execv(sys.executable, ...).  The module imports os,
\* json, asyncio, logging, datetime, pytz, aiohttp and discord (main.py:2-11)
\* but not sys, so evaluating the argument raises NameError and the process
\* image is not replaced.
execv == "NameError"

RClockMax == RESTART_INTERVAL + MaxOver

\* asyncio.sleep (main.py:324, 357, 361) returns at its wake time or a
\* little later, so the coroutine may run on in a later clock second; the
\* delays explored end MaxLate seconds after the wake second
sleeper_overdue ==
    \/ rst.auto = "grace" /\ now >= rst.auto_wake + MaxLate
    \/ rst.cmd \in {"delay", "grace"} /\ now >= rst.cmd_wake + MaxLate

\* one second passes; the next period of tasks.loop(seconds=1) begins
\* (main.py:309).  Seconds pass freely while a send is awaited.
RAdvance ==
    /\ ~sleeper_overdue
    /\ now < START_TIME + RClockMax
    /\ now' = now + 1
    /\ rst' = [rst EXCEPT !.checked = FALSE]
    /\ UNCHANGED PollVars

\* main.py:311-316, 320: neither condition holds
RestartCheckQuiet ==
    /\ ~rst.checked
    /\ rst.auto = "idle"
    /\ ~in_warning_window(elapsed) /\ ~restart_due(elapsed)
    /\ rst' = [rst EXCEPT !.checked = TRUE]
    /\ UNCHANGED <<now, PollVars>>

\* main.py:316-319: inside the warning window; with a notification channel
\* (ch) the warning is sent and the check waits for the send
RestartCheckWarn ==
    /\ ~rst.checked
    /\ rst.auto = "idle"
    /\ in_warning_window(elapsed)
    /\ \E ch \in BOOLEAN :
        rst' = [rst EXCEPT !.checked = TRUE,
                           !.auto = IF ch THEN "warning" ELSE "idle"]
    /\ UNCHANGED <<now, PollVars>>

\* main.py:319: the awaited send returns, or raises and is caught at
\* 327-328.  elapsed was computed at 314, so the test at 320 fails.  When a
\* second has begun in the meantime the next check starts without waiting.
RestartWarnReturn ==
    /\ rst.auto = "warning"
    /\ \E sent \in BOOLEAN :
        rst' = [rst EXCEPT !.auto = "idle",
                           !.warned = @ + (IF sent THEN 1 ELSE 0),
                           !.logs = @ + (IF sent THEN 0 ELSE 1)]
    /\ UNCHANGED <<now, PollVars>>

\* main.py:320-324: the restart is due; with a channel the final notice is
\* sent and the check waits for the send, without one it goes to the grace
\* sleep
RestartCheckDue ==
    /\ ~rst.checked
    /\ rst.auto = "idle"
    /\ restart_due(elapsed)
    /\ \E ch \in BOOLEAN :
        rst' = [rst EXCEPT !.checked = TRUE,
                           !.auto = IF ch THEN "notice" ELSE "grace",
                           !.auto_wake = IF ch THEN 0 ELSE now + GRACE]
    /\ UNCHANGED <<now, PollVars>>

\* main.py:323-324: the awaited send returns and the grace sleep begins, or
\* the send raises and is caught at 327-328
RestartNoticeReturn ==
    /\ rst.auto = "notice"
    /\ \E sent \in BOOLEAN :
        IF sent
        THEN rst' = [rst EXCEPT !.noticed = @ + 1,
                                !.auto = "grace",
                                !.auto_wake = now + GRACE]
        ELSE rst' = [rst EXCEPT !.auto = "idle", !.logs = @ + 1]
    /\ UNCHANGED <<now, PollVars>>

\* main.py:324-328: after the grace sleep os.execv is reached; its
\* NameError is caught and logged at 327-328
RestartGraceEnd ==
    /\ rst.auto = "grace"
    /\ now >= rst.auto_wake
    /\ rst' = [rst EXCEPT !.auto = "idle",
                          !.auto_wake = 0,
                          !.execv = @ + 1,
                          !.relaunched = (execv = "replaced"),
                          !.logs = @ + (IF execv = "NameError" THEN 1 ELSE 0)]
    /\ UNCHANGED <<now, PollVars>>

auto_restart_check ==
    \/ RestartCheckQuiet
    \/ RestartCheckWarn
    \/ RestartWarnReturn
    \/ RestartCheckDue
    \/ RestartNoticeReturn
    \/ RestartGraceEnd

\* main.py:354-356: the command is invoked and waits for its reply to the
\* invoking user
CmdResetStart ==
    /\ rst.cmd = "none"
    /\ rst.cmds < MaxManual
    /\ rst' = [rst EXCEPT !.cmds = @ + 1, !.cmd = "reply"]
    /\ UNCHANGED <<now, PollVars>>

\* main.py:356-357: the reply returns and the 5 s sleep begins.  The command
\* has no try/except: a raising ctx.send ends it at once.
CmdResetReplied ==
    /\ rst.cmd = "reply"
    /\ \E replied \in BOOLEAN :
        rst' = [rst EXCEPT !.cmd = IF replied THEN "delay" ELSE "none",
                           !.cmd_wake = IF replied THEN now + MANUAL_DELAY ELSE 0]
    /\ UNCHANGED <<now, PollVars>>

\* main.py:357-361: the 5 s sleep is over; with a channel the notice is sent
\* and the command waits for the send, without one it goes to the grace sleep
CmdResetNotice ==
    /\ rst.cmd = "delay"
    /\ now >= rst.cmd_wake
    /\ \E ch \in BOOLEAN :
        rst' = [rst EXCEPT !.cmd = IF ch THEN "notice" ELSE "grace",
                           !.cmd_wake = IF ch THEN 0 ELSE now + GRACE]
    /\ UNCHANGED <<now, PollVars>>

\* main.py:360-361: the awaited send returns and the grace sleep begins; a
\* raising send ends the command before os.execv
CmdResetNoticeReturn ==
    /\ rst.cmd = "notice"
    /\ \E sent \in BOOLEAN :
        IF sent
        THEN rst' = [rst EXCEPT !.manual = @ + 1,
                                !.cmd = "grace",
                                !.cmd_wake = now + GRACE]
        ELSE rst' = [rst EXCEPT !.cmd = "none"]
    /\ UNCHANGED <<now, PollVars>>

\* main.py:361-363: os.execv is reached; its NameError leaves the command
CmdResetExec ==
    /\ rst.cmd = "grace"
    /\ now >= rst.cmd_wake
    /\ rst' = [rst EXCEPT !.cmd = "none",
                          !.cmd_wake = 0,
                          !.execv = @ + 1,
                          !.relaunched = (execv = "replaced")]
    /\ UNCHANGED <<now, PollVars>>

cmd_resetbot ==
    \/ CmdResetStart
    \/ CmdResetReplied
    \/ CmdResetNotice
    \/ CmdResetNoticeReturn
    \/ CmdResetExec

RestartNext ==
    \/ auto_restart_check
    \/ cmd_resetbot
    \/ RAdvance

SpecRestart == Init /\ [][RestartNext]_vars

\* ================================================================== claims

\* C1 (first half): an identity that the presence service reports online in
\* a tick's presence query, and that is not in LastOnlineSet when the tick
\* starts, gets an online event in that tick.
C1_OnlineEventEmitted ==
    \A u \in Others :
        (obs.fetched /\ u \in obs.up_online /\ u \notin obs.last_before)
            => u \in obs.online_ev

\* C2: an identity reported online at one presence query of the process and
\* Offline at the next one (no offline event in between) gets an offline
\* event in the tick that sees it Offline.
C2_OfflineEventEmitted ==
    [][\A u \in Others :
          (obs.fetched /\ u \in obs.up_online
             /\ obs'.fetched /\ u \in obs'.up_offline)
            => \E e \in obs'.offline_ev : e.uid = u]_vars

\* C5: after a tick whose presence query covers an identity that is
\* OnlineActive upstream, activeSince (game_since) holds a timestamp for it.
C5_ActiveSinceSet ==
    \A u \in Others :
        (obs.fetched /\ u \in obs.up_active) => game_since[u] # NoTime

\* C7: a tick's presence query issues one upstream call per chunk of the
\* monitored list, ceil(n / 100) calls for n identities.
C7_OneCallPerChunk ==
    obs.fetched =>
        \A l \in Lists(obs.queried) : obs.calls = Len(chunked(l, BATCH))

\* C8: whatever happens to individual chunk calls, the presence query of a
\* non-empty monitored set returns a (partial) result and the tick goes on.
C8_TickGoesOn ==
    (obs.fetched /\ obs.queried # {}) => obs.outcome # "abandoned"

\* C9: a tick creates a display message only when it starts in NoHandle or
\* its edit fails with not-found; a tick whose create succeeds creates one
\* message, makes it the in-memory handle and persists it; every other tick
\* creates nothing and keeps the handle.
C9_CreateOnlyWhenNeeded ==
    /\ obs.created = 1 => (obs.start_handle = None \/ obs.edit = "notfound")
    /\ (obs.outcome = "done" /\ obs.created = 1)
         => /\ obs.new_id # obs.start_handle
            /\ status_message_id = obs.new_id
            /\ state_file = status_message_id
    /\ (obs.outcome = "done" /\ obs.created = 0)
         => status_message_id = obs.start_handle

C9_Witness ==
    /\ obs.outcome = "done"
    /\ obs.edit = "notfound"
    /\ obs.created = 1
    /\ status_message_id = obs.new_id
    /\ state_file = obs.new_id
    /\ obs.start_handle \notin {None, obs.new_id}

\* C11: in a process lifetime the 5-minute warning is sent exactly once,
\* never again at a later check inside the warning window (stated for the
\* lifetimes in which no manual restart command is given).
C11_WarningOnce == rst.cmds = 0 => rst.warned <= 1

\* C12: the final notice is sent once, and when the check that sent it has
\* passed its grace period the process image has been replaced (stated for
\* the lifetimes in which no manual restart command is given).
C12_RelaunchAfterNotice ==
    rst.cmds = 0 =>
        /\ rst.noticed <= 1
        /\ (rst.noticed > 0 /\ rst.auto = "idle") => rst.relaunched

\* C13: a tick that starts with a handle and whose edit fails for another
\* reason than not-found (permission denied, any other error) creates no
\* message and leaves the handle in memory and in state.json as they were;
\* the next tick of the process that publishes edits that same handle.
C13_EditFailureKeepsHandle ==
    [][/\ (obs'.outcome \in {"creating", "done"}
            /\ obs'.edit \in {"forbidden", "error"})
          => /\ obs'.outcome = "done"
             /\ obs'.created = 0
             /\ obs'.start_handle # None
             /\ status_message_id' = obs'.start_handle
             /\ state_file' = obs'.start_handle
       /\ (obs.outcome = "done" /\ obs.edit \in {"forbidden", "error"}
            /\ obs' # obs /\ obs'.outcome \in {"publishing", "creating", "done"})
          => /\ obs'.start_handle = obs.start_handle
             /\ pc' = "fetching"]_vars

C13_Witness ==
    /\ obs.outcome = "done"
    /\ obs.edit = "forbidden"
    /\ obs.created = 0
    /\ ~obs.first
    /\ status_message_id # None
    /\ status_message_id = obs.start_handle
    /\ state_file = status_message_id

\* C14: after a tick that was abandoned by an exception the polling task is
\* not stopped: it is waiting for its next period and the next tick can run.
C14_TaskSurvivesException ==
    obs.outcome = "abandoned" => (pc = "idle" /\ ENABLED TickNoChannel)

C14_Witness ==
    /\ obs.outcome = "abandoned"
    /\ obs.fetched
    /\ obs.queried # {}
    /\ obs.logs > 0
    /\ pc = "idle"

\* C17: at a tick boundary activeSince (game_since) holds a timestamp for an
\* identity exactly when the last presence query that covered it found it
\* OnlineActive upstream.
C17_ActiveSinceIffActive ==
    obs.fetched =>
        \A u \in obs.queried : (game_since[u] # NoTime) <=> (u \in obs.up_active)

\* C20: a tick abandoned by a raising upstream fetch, or returning early
\* because a channel is unavailable, leaves online_since, game_since,
\* last_online_set and the display handle (in memory and in state.json) as
\* they were, emits no online or offline event and publishes nothing.
C20_AbandonedTickFrame ==
    [][(obs' # obs /\ obs'.outcome \in {"abandoned", "nochannel"})
          => /\ UNCHANGED <<online_since, game_since, last_online_set,
                            status_message_id, state_file, live, next_id>>
             /\ obs'.online_ev = {} /\ obs'.offline_ev = {}
             /\ obs'.created = 0 /\ obs'.edit = "none"]_vars

C20_Witness ==
    /\ obs.outcome = "abandoned"
    /\ obs.queried # {}
    /\ status_message_id # None
    /\ status_message_id = state_file
    /\ status_message_id \in live

====
